---- MODULE Spec2Model ----
(***************************************************************************)
(* Model of tools/vectordb_bench/vectordb_bench.cpp: the fvecs/ivecs       *)
(* reader, the statement text builder, the insert loop, the query loop,    *)
(* the recall metric and main.                                             *)
(*                                                                         *)
(* Conventions.  C arrays are TLA+ sequences; element k (0-based) of the   *)
(* array x is x[k + 1].  A file is a record [exists, words, tail]: words   *)
(* is the sequence of its complete 4-byte words and tail the number of     *)
(* bytes after the last complete word, so its size is 4 * Len(words) +     *)
(* tail.  A float is represented by the integer v * 10^7 (every float the  *)
(* model uses has at most 7 decimal digits).  A std::string is a string.   *)
(* assert() is enabled: a failed assertion aborts the process.             *)
(***************************************************************************)
EXTENDS Integers, Sequences, FiniteSets, TLC

VARIABLES
  \* ---- FvecsRead, step by step (specification SpecRead) ----
  rfile,      \* the file FvecsRead is called on
  rpc,        \* position inside FvecsRead
  rd,         \* int d
  rn,         \* size_t n
  rx,         \* float *x
  ri,         \* loop index of the shift loop
  \* ---- Metric alone (specification SpecMetric) ----
  mmetric,    \* a Metric object
  mres,       \* res argument of the last AddQueryResult call
  mrow,       \* memory gt points to in the last AddQueryResult call
  mcalls,     \* number of AddQueryResult calls made
  \* ---- main (specification Spec) ----
  pc,         \* position in main
  submitted,  \* statements handed to bustub.ExecuteSql, with their outcome
  errlog,     \* row indexes written to std::cerr by the insert loop
  xb, nb,     \* base vectors (InsertIndexVectorData)
  xq, nq,     \* query vectors (main)
  gt, k,      \* ground truth, nq * k (main)
  i,          \* loop index of the insert loop, then of the query loop
  values_,    \* StringVectorWriter::values_
  id_lst,     \* id_lst of the last query iteration
  gt_arg,     \* offset of the pointer handed to AddQueryResult (gt + 100 * i)
  metric,     \* Metric metric of DoANNQuery
  report      \* what Metric::Show printed

readVars == <<rfile, rpc, rd, rn, rx, ri>>
metricVars == <<mmetric, mres, mrow, mcalls>>
mainVars == <<pc, submitted, errlog, xb, nb, xq, nq, gt, k, i, values_, id_lst, gt_arg, metric, report>>
vars == <<rfile, rpc, rd, rn, rx, ri, mmetric, mres, mrow, mcalls,
          pc, submitted, errlog, xb, nb, xq, nq, gt, k, i, values_, id_lst, gt_arg, metric, report>>

(***************************************************************************)
(* Bounds of the model                                                     *)
(***************************************************************************)
MaxRecords == 3   \* records of a file given to FvecsRead in SpecRead
MaxDim == 3       \* dimension of a file given to FvecsRead in SpecRead
MaxCalls == 3     \* AddQueryResult calls in SpecMetric
MaxTail == 2      \* identifiers after the filler of a result list (SpecMetric)
MaxBase == 2      \* base vectors in Spec
MaxQueries == 2   \* query vectors in Spec

(***************************************************************************)
(* Program constants                                                       *)
(***************************************************************************)
DimLimit == 1000000   \* assert((d > 0 && d < 1000000) ...)
VecDim == 128         \* d2 == 128, p + 128 * i, Vector2String(.., 128)
GtStride == 100       \* gt + 100 * i
Cut1 == 1             \* if (i < 1)
Cut10 == 10           \* if (i < 10)
Cut100 == 100         \* if (i < 100)
Precision == 6        \* std::setprecision(6)

(***************************************************************************)
(* Files                                                                   *)
(***************************************************************************)
FileSize(f) == 4 * Len(f.words) + f.tail

NoFile == [exists |-> FALSE, words |-> <<>>, tail |-> 0]

MkFile(w, t) == [exists |-> TRUE, words |-> w, tail |-> t]

\* values an int read from uninitialized storage may have
IndeterminateInts == {-1, 2, 128}

(***************************************************************************)
(* FvecsRead                                                               *)
(***************************************************************************)
\* memmove(x + dst, x + src, cnt * sizeof(*x)): the source is read whole
\* before the destination is written
Memmove(x, dst, src, cnt) ==
  [p \in 1..Len(x) |->
     IF (p - 1 >= dst) /\ (p - 1 < dst + cnt) THEN x[(p - 1) - dst + src + 1] ELSE x[p]]

ShiftRowKeepHeader(x, row, d) == Memmove(x, row * d, row * (d + 1), d)

\* memmove(x + i * d, x + 1 + i * (d + 1), d * sizeof(*x))
ShiftRow(x, row, d) == Memmove(x, row * d, 1 + row * (d + 1), d)

\* d > 0 && d < 1000000
HeaderOk(d) == (d > 0) /\ (d < DimLimit)

SizeOkUnchecked(sz, d) == TRUE

\* sz % ((d + 1) * 4) == 0
SizeOk(sz, d) == sz % ((d + 1) * 4) = 0

\* fread(&d, 1, sizeof(int), f): the first word of the file; with fewer than
\* 4 bytes in the file d keeps (part of) its uninitialized value
HeaderValues(f) == IF Len(f.words) >= 1 THEN {f.words[1]} ELSE IndeterminateInts

\* fread(x, sizeof(float), n * (d + 1), f) into new float[n * (d + 1)]; past
\* the size check the file holds exactly that many words, so nr is the whole
\* count and the assert on it passes
ReadWhole(f, cnt) == SubSeq(f.words, 1, cnt)

\* for (size_t i = 0; i < n; i++) memmove(...)
RECURSIVE ShiftFrom(_, _, _, _)
ShiftFrom(x, row, n, d) ==
  IF row >= n THEN x ELSE ShiftFrom(ShiftRow(x, row, d), row + 1, n, d)

\* The whole of FvecsRead for a header value d: ok = FALSE when it aborts
FvecsRead(f, d) ==
  IF ~f.exists \/ ~HeaderOk(d) \/ ~SizeOk(FileSize(f), d)
  THEN [ok |-> FALSE, d |-> 0, n |-> 0, x |-> <<>>]
  ELSE LET n == FileSize(f) \div ((d + 1) * 4)
       IN [ok |-> TRUE, d |-> d, n |-> n,
           x |-> ShiftFrom(ReadWhole(f, n * (d + 1)), 0, n, d)]

\* ---- the same function step by step ----
FvecsReadOpen ==
  /\ rpc = "open"
  /\ rpc' = IF rfile.exists THEN "header" ELSE "aborted"
  /\ UNCHANGED <<rfile, rd, rn, rx, ri>>

FvecsReadHeader ==
  /\ rpc = "header"
  /\ \E d \in HeaderValues(rfile) :
       /\ rd' = d
       /\ IF HeaderOk(d) /\ SizeOk(FileSize(rfile), d)
          THEN /\ rn' = FileSize(rfile) \div ((d + 1) * 4)
               /\ rx' = ReadWhole(rfile, rn' * (d + 1))
               /\ rpc' = "shift"
          ELSE /\ rpc' = "aborted"
               /\ UNCHANGED <<rn, rx>>
  /\ ri' = 0
  /\ UNCHANGED rfile

FvecsReadShift ==
  /\ rpc = "shift"
  /\ ri < rn
  /\ rx' = ShiftRow(rx, ri, rd)
  /\ ri' = ri + 1
  /\ UNCHANGED <<rfile, rpc, rd, rn>>

FvecsReadReturn ==
  /\ rpc = "shift"
  /\ ri >= rn
  /\ rpc' = "returned"
  /\ UNCHANGED <<rfile, rd, rn, rx, ri>>


(***************************************************************************)
(* Metric                                                                  *)
(***************************************************************************)
HitCut10OffByOne(m, rank) ==
  [m EXCEPT !.n_1_ = IF rank < Cut1 THEN @ + 1 ELSE @,
            !.n_10_ = IF rank <= Cut10 THEN @ + 1 ELSE @,
            !.n_100_ = IF rank < Cut100 THEN @ + 1 ELSE @]

\* if (i < 1) ++n_1_; if (i < 10) ++n_10_; if (i < 100) ++n_100_;
Hit(m, rank) ==
  [m EXCEPT !.n_1_ = IF rank < Cut1 THEN @ + 1 ELSE @,
            !.n_10_ = IF rank < Cut10 THEN @ + 1 ELSE @,
            !.n_100_ = IF rank < Cut100 THEN @ + 1 ELSE @]

\* The loop for (size_t i = 0; i < res.size(); ++i) over the ranks lo .. hi
\* in order, from the loop state st = [m, broke]; the range is split in two
\* halves run one after the other, and nothing runs once the loop has broken
RECURSIVE ScanRangeNoBreak(_, _, _, _, _)
ScanRangeNoBreak(st, res, target, lo, hi) ==
  IF lo > hi THEN st
  ELSE IF lo = hi
       THEN IF res[lo + 1] = target THEN [m |-> Hit(st.m, lo), broke |-> FALSE] ELSE st
       ELSE LET mid == (lo + hi) \div 2
            IN ScanRangeNoBreak(ScanRangeNoBreak(st, res, target, lo, mid), res, target, mid + 1, hi)

\* if (res[i] == target) { ...; break; }
RECURSIVE ScanRange(_, _, _, _, _)
ScanRange(st, res, target, lo, hi) ==
  IF st.broke \/ lo > hi THEN st
  ELSE IF lo = hi
       THEN IF res[lo + 1] = target THEN [m |-> Hit(st.m, lo), broke |-> TRUE] ELSE st
       ELSE LET mid == (lo + hi) \div 2
            IN ScanRange(ScanRange(st, res, target, lo, mid), res, target, mid + 1, hi)

\* Metric::AddQueryResult(res, gt); row is the memory gt points to
AddQueryResult(m, res, row) ==
  ScanRange([m |-> [m EXCEPT !.n_ = @ + 1], broke |-> FALSE], res, row[1], 0, Len(res) - 1).m

\* ---- decimal text ----
DigitChar(dgt) == SubSeq("0123456789", dgt + 1, dgt + 1)

\* the decimal digits of a natural number
RECURSIVE NatToString(_)
NatToString(n) == IF n < 10 THEN DigitChar(n) ELSE NatToString(n \div 10) \o DigitChar(n % 10)

\* std::to_string
IntToString(n) == IF n < 0 THEN "-" \o NatToString(0 - n) ELSE NatToString(n)

\* the last cnt decimal digits of f, zero padded
RECURSIVE FracDigits(_, _)
FracDigits(f, cnt) == IF cnt = 0 THEN "" ELSE FracDigits(f \div 10, cnt - 1) \o DigitChar(f % 10)

RECURSIVE Pow10(_)
Pow10(e) == IF e = 0 THEN 1 ELSE 10 * Pow10(e - 1)

\* fixed-point text of units / 10^digits, units >= 0
FixedText(units, digits) ==
  LET scale == Pow10(digits)
  IN NatToString(units \div scale) \o "." \o FracDigits(units % scale, digits)

\* printf("%.4f", a / static_cast<float>(b)): the quotient rounded to 4
\* decimals (no quotient of counters below 32 is a tie); 0 / 0.0f is a NaN
RecallText(a, b) ==
  IF b = 0 THEN "nan" ELSE FixedText((2 * 10000 * a + b) \div (2 * b), 4)

\* Metric::Show: the three values printed
Show(m) == <<RecallText(m.n_1_, m.n_), RecallText(m.n_10_, m.n_), RecallText(m.n_100_, m.n_)>>

(***************************************************************************)
(* SpecMetric: any sequence of AddQueryResult calls on one Metric          *)
(***************************************************************************)
\* cnt copies of id
Filler(cnt, id) == [p \in 1..cnt |-> id]

RECURSIVE SeqsUpTo(_, _)
SeqsUpTo(S, len) ==
  IF len = 0 THEN {<<>>}
  ELSE LET shorter == SeqsUpTo(S, len - 1)
       IN shorter \cup {Append(t, e) : t \in shorter, e \in S}

\* result lists: a run of identifier 0 followed by up to MaxTail identifiers,
\* so that a first match falls on either side of each cut-off
MetricFillerLens == {0, 9, 99}

MetricResults == {Filler(a, 0) \o t : a \in MetricFillerLens, t \in SeqsUpTo({1, 2}, MaxTail)}

MetricRows == {<<0>>, <<1>>, <<2, 1>>}

(***************************************************************************)
(* Input files of SpecRead                                                 *)
(***************************************************************************)
\* first payload value of a file; the payload of row r, column c is
\* base + r * d + c, so every payload element of a file is distinct
PayloadBases == {-1, 0, 5}

\* a header that the reader must reject, or (d + 1, 2) one it cannot tell
\* from a valid one
HeaderEdits == {-1, 0, 2, DimLimit}

\* the well-formed file of n records of dimension d
WellFormedFile(n, d, base) ==
  MkFile([p \in 1..(n * (d + 1)) |->
            LET r == (p - 1) \div (d + 1)
                c == (p - 1) % (d + 1)
            IN IF c = 0 THEN d ELSE base + r * d + (c - 1)], 0)

WellFormedFiles ==
  {WellFormedFile(n, d, b) : n \in 0..MaxRecords, d \in 1..MaxDim, b \in PayloadBases}

\* files obtained from a well-formed one by damaging it
DamagedFiles(f) ==
  {MkFile(f.words, t) : t \in 1..3}
  \cup {MkFile(Append(f.words, 7), 0)}
  \cup (IF Len(f.words) >= 1
        THEN {MkFile(SubSeq(f.words, 1, Len(f.words) - 1), 0)}
             \cup {MkFile([f.words EXCEPT ![1] = h], 0) : h \in HeaderEdits}
        ELSE {})

ReadFiles == WellFormedFiles \cup UNION {DamagedFiles(f) : f \in WellFormedFiles} \cup {NoFile}

\* f consists of exactly n records, each a header d followed by d elements
IsWellFormed(f, n, d) ==
  /\ f.exists
  /\ f.tail = 0
  /\ Len(f.words) = n * (d + 1)
  /\ \A r \in 0..(n - 1) : f.words[r * (d + 1) + 1] = d

\* the j-th payload element of record r of the file
Payload(f, d, r, j) == f.words[r * (d + 1) + 1 + j + 1]

(***************************************************************************)
(* Idle values of the variable groups a specification does not use         *)
(***************************************************************************)
ZeroMetric == [n_1_ |-> 0, n_10_ |-> 0, n_100_ |-> 0, n_ |-> 0]

NoReport == <<>>

ReadIdle ==
  /\ rfile = NoFile /\ rpc = "idle" /\ rd = 0 /\ rn = 0 /\ rx = <<>> /\ ri = 0

MetricIdle ==
  /\ mmetric = ZeroMetric /\ mres = <<>> /\ mrow = <<>> /\ mcalls = 0

MainIdle ==
  /\ pc = "idle" /\ submitted = <<>> /\ errlog = <<>>
  /\ xb = <<>> /\ nb = 0 /\ xq = <<>> /\ nq = 0 /\ gt = <<>> /\ k = 0
  /\ i = 0 /\ values_ = <<>> /\ id_lst = <<>> /\ gt_arg = 0
  /\ metric = ZeroMetric /\ report = NoReport

(***************************************************************************)
(* SpecRead: FvecsRead on every file of ReadFiles                          *)
(***************************************************************************)
InitRead ==
  /\ rfile \in ReadFiles
  /\ rpc = "open" /\ rd = 0 /\ rn = 0 /\ rx = <<>> /\ ri = 0
  /\ MetricIdle
  /\ MainIdle

NextRead ==
  \/ FvecsReadOpen /\ UNCHANGED metricVars /\ UNCHANGED mainVars
  \/ FvecsReadHeader /\ UNCHANGED metricVars /\ UNCHANGED mainVars
  \/ FvecsReadShift /\ UNCHANGED metricVars /\ UNCHANGED mainVars
  \/ FvecsReadReturn /\ UNCHANGED metricVars /\ UNCHANGED mainVars

SpecRead == InitRead /\ [][NextRead]_vars

InitMetric ==
  /\ mmetric = ZeroMetric /\ mres = <<>> /\ mrow = <<>> /\ mcalls = 0
  /\ ReadIdle
  /\ MainIdle

MetricRecord ==
  /\ mcalls < MaxCalls
  /\ \E res \in MetricResults, row \in MetricRows :
       /\ mmetric' = AddQueryResult(mmetric, res, row)
       /\ mres' = res
       /\ mrow' = row
  /\ mcalls' = mcalls + 1

NextMetric ==
  \/ MetricRecord /\ UNCHANGED readVars /\ UNCHANGED mainVars

SpecMetric == InitMetric /\ [][NextMetric]_vars

(***************************************************************************)
(* Statement text                                                          *)
(***************************************************************************)
\* operator<< of a float under std::fixed << std::setprecision(6): v is the
\* float times 10^7; the 7th decimal is rounded to nearest, ties to even
FloatText(v) ==
  LET a == IF v < 0 THEN 0 - v ELSE v
      q == a \div 10
      r == a % 10
      u == IF (r > 5) \/ (r = 5 /\ q % 2 = 1) THEN q + 1 ELSE q
  IN (IF v < 0 THEN "-" ELSE "") \o FixedText(u, Precision)

\* the text the loop of Vector2String writes for the elements lo .. hi of
\* the n elements at p + off: each element, then ", " unless it is the last
RECURSIVE VectorItems(_, _, _, _, _)
VectorItems(p, off, n, lo, hi) ==
  IF lo > hi THEN ""
  ELSE IF lo = hi
       THEN FloatText(p[off + lo + 1]) \o (IF lo < n - 1 THEN ", " ELSE "")
       ELSE LET mid == (lo + hi) \div 2
            IN VectorItems(p, off, n, lo, mid) \o VectorItems(p, off, n, mid + 1, hi)

\* Vector2String(p + off, n)
Vector2String(p, off, n) == "[" \o VectorItems(p, off, n, 0, n - 1) \o "]"

create_table_sql == "CREATE TABLE t1(v1 VECTOR(128), v2 integer);"

create_index ==
  "CREATE INDEX t1v1hnsw ON t1 USING hnsw (v1 vector_l2_ops) WITH (m = 16, ef_construction = 64, ef_search = 100);"

insert_sql == "INSERT INTO t1 VALUES (ARRAY "

select_sql == "SELECT v2, v1 FROM t1 ORDER BY ARRAY "

\* insert_sql + Vector2String(xb + i * d2, d2) + " , " + std::to_string(i) + ");"
InsertSql(base, row, d2) ==
  insert_sql \o Vector2String(base, row * d2, d2) \o " , " \o IntToString(row) \o ");"

\* select_sql + Vector2String(p + 128 * i, 128) + " <-> v1 LIMIT 100;"
SelectSql(p, row) ==
  select_sql \o Vector2String(p, VecDim * row, VecDim) \o " <-> v1 LIMIT 100;"

\* ---- std::stoi on the text of an integer ----
DigitValue(c) == CHOOSE dgt \in 0..9 : DigitChar(dgt) = c

RECURSIVE ParseNat(_, _, _)
ParseNat(str, pos, acc) ==
  IF pos > Len(str) THEN acc
  ELSE ParseNat(str, pos + 1, 10 * acc + DigitValue(SubSeq(str, pos, pos)))

StoI(str) == IF SubSeq(str, 1, 1) = "-" THEN 0 - ParseNat(str, 2, 0) ELSE ParseNat(str, 1, 0)

(***************************************************************************)
(* The backend and its result writer                                       *)
(***************************************************************************)
\* one entry of the log of statements handed to ExecuteSql: the text, the
\* status returned, the identifiers of the rows the execution produced
Call(sql, status, ids) == [sql |-> sql, status |-> status, ids |-> ids]

\* what a select may produce: failure, or up to 100 rows ranked by distance
SelectOutcomes ==
  {[status |-> FALSE, ids |-> <<>>], [status |-> TRUE, ids |-> <<>>]}
  \cup {[status |-> TRUE, ids |-> <<t>>] : t \in {0, 2}}
  \cup {[status |-> TRUE, ids |-> Append(Filler(99, 1), 2)]}

\* a result row as the writer receives it: the v2 cell, the v1 cell
ResultRow(id) == <<IntToString(id), "[...]">>

\* ExecuteSql(sql, writer) on a StringVectorWriter: every row produced is
\* appended to writer.values_; nothing removes what earlier statements left
WriterAfterExecute(values, ids) == values \o [p \in 1..Len(ids) |-> ResultRow(ids[p])]

(***************************************************************************)
(* Input files of Spec                                                     *)
(***************************************************************************)
\* floats (times 10^7) the vector files are made of: 1.0, 2.5, 0.0078125,
\* -0.5, 0.0234375, 0.0, 3.140625, -0.0078125 (all exact in binary)
FloatValues == <<10000000, 25000000, 78125, -5000000, 234375, 0, 31406250, -78125>>

\* n vectors of dimension d; element c of vector r is FloatValues[(seed + 3 r + c) mod 8]
VectorFile(n, d, seed) ==
  MkFile([p \in 1..(n * (d + 1)) |->
            LET r == (p - 1) \div (d + 1)
                c == (p - 1) % (d + 1)
            IN IF c = 0 THEN d ELSE FloatValues[((seed + 3 * r + c - 1) % Len(FloatValues)) + 1]], 0)

\* n ground-truth rows of width w; entry c of row r is (2 r + c) mod 3
GroundTruthFile(n, w) ==
  MkFile([p \in 1..(n * (w + 1)) |->
            LET r == (p - 1) \div (w + 1)
                c == (p - 1) % (w + 1)
            IN IF c = 0 THEN w ELSE (2 * r + c - 1) % 3], 0)

Truncated(f) == MkFile(SubSeq(f.words, 1, Len(f.words) - 1), 2)

BaseFiles ==
  {VectorFile(n, VecDim, 0) : n \in 0..MaxBase}
  \cup {VectorFile(1, 2, 0), Truncated(VectorFile(1, VecDim, 0)), NoFile}

QueryFiles ==
  {VectorFile(n, VecDim, 1) : n \in 0..MaxQueries} \cup {VectorFile(1, 2, 1)}

GtWidths == {1, 100, 101}

GroundTruthFiles == {GroundTruthFile(n, w) : n \in 0..MaxQueries, w \in GtWidths}

(***************************************************************************)
(* main                                                                    *)
(***************************************************************************)
\* the memory the pointer gt + off may point to: the rest of the array, or,
\* beyond its end, indeterminate values
GtRows(buf, off) ==
  IF off < Len(buf) THEN {SubSeq(buf, off + 1, Len(buf))} ELSE {<<g>> : g \in IndeterminateInts}

\* for (const auto &lines : res) id_lst.push_back(std::stoi(lines[0]))
IdList(values) == [p \in 1..Len(values) |-> StoI(values[p][1])]

CreateTable ==
  /\ pc = "create_table"
  /\ \E status \in BOOLEAN :
       /\ submitted' = Append(submitted, Call(create_table_sql, status, <<>>))
       /\ pc' = IF status THEN "create_index" ELSE "aborted"
  /\ UNCHANGED <<errlog, xb, nb, xq, nq, gt, k, i, values_, id_lst, gt_arg, metric, report>>

CreateIndexUnchecked ==
  /\ pc = "create_index"
  /\ \E status \in BOOLEAN :
       /\ submitted' = Append(submitted, Call(create_index, status, <<>>))
       /\ pc' = "load_base"
  /\ UNCHANGED <<errlog, xb, nb, xq, nq, gt, k, i, values_, id_lst, gt_arg, metric, report>>

CreateIndex ==
  /\ pc = "create_index"
  /\ \E status \in BOOLEAN :
       /\ submitted' = Append(submitted, Call(create_index, status, <<>>))
       /\ pc' = IF status THEN "load_base" ELSE "aborted"
  /\ UNCHANGED <<errlog, xb, nb, xq, nq, gt, k, i, values_, id_lst, gt_arg, metric, report>>

LoadBase ==
  /\ pc = "load_base"
  /\ \E f \in BaseFiles : \E d \in HeaderValues(f) :
       LET r == FvecsRead(f, d)
       IN IF r.ok /\ r.d = VecDim
          THEN /\ xb' = r.x /\ nb' = r.n /\ i' = 0
               /\ pc' = "insert"
          ELSE /\ pc' = "aborted"
               /\ UNCHANGED <<xb, nb, i>>
  /\ UNCHANGED <<submitted, errlog, xq, nq, gt, k, values_, id_lst, gt_arg, metric, report>>

InsertStepAbortOnFailure ==
  /\ pc = "insert"
  /\ i < nb
  /\ \E status \in BOOLEAN :
       /\ submitted' = Append(submitted, Call(InsertSql(xb, i, VecDim), status, <<>>))
       /\ errlog' = IF status THEN errlog ELSE Append(errlog, i)
       /\ pc' = IF status THEN "insert" ELSE "aborted"
  /\ i' = i + 1
  /\ UNCHANGED <<xb, nb, xq, nq, gt, k, values_, id_lst, gt_arg, metric, report>>

InsertStep ==
  /\ pc = "insert"
  /\ i < nb
  /\ \E status \in BOOLEAN :
       /\ submitted' = Append(submitted, Call(InsertSql(xb, i, VecDim), status, <<>>))
       /\ errlog' = IF status THEN errlog ELSE Append(errlog, i)
  /\ i' = i + 1
  /\ UNCHANGED <<pc, xb, nb, xq, nq, gt, k, values_, id_lst, gt_arg, metric, report>>

InsertDone ==
  /\ pc = "insert"
  /\ i >= nb
  /\ xb' = <<>>
  /\ pc' = "load_query"
  /\ UNCHANGED <<submitted, errlog, nb, xq, nq, gt, k, i, values_, id_lst, gt_arg, metric, report>>

LoadQueries ==
  /\ pc = "load_query"
  /\ \E f \in QueryFiles : \E d \in HeaderValues(f) :
       LET r == FvecsRead(f, d)
       IN IF r.ok /\ r.d = VecDim
          THEN /\ xq' = r.x /\ nq' = r.n
               /\ pc' = "load_gt"
          ELSE /\ pc' = "aborted"
               /\ UNCHANGED <<xq, nq>>
  /\ UNCHANGED <<submitted, errlog, xb, nb, gt, k, i, values_, id_lst, gt_arg, metric, report>>

LoadGroundTruth ==
  /\ pc = "load_gt"
  /\ \E f \in GroundTruthFiles : \E d \in HeaderValues(f) :
       LET r == FvecsRead(f, d)
       IN IF r.ok /\ r.n = nq
          THEN /\ k' = r.d
               /\ gt' = SubSeq(r.x, 1, r.d * nq)
               /\ i' = 0
               /\ pc' = "query"
          ELSE /\ pc' = "aborted"
               /\ UNCHANGED <<gt, k, i>>
  /\ UNCHANGED <<submitted, errlog, xb, nb, xq, nq, values_, id_lst, gt_arg, metric, report>>

QueryStep ==
  /\ pc = "query"
  /\ i < nq
  /\ LET sql == SelectSql(xq, i)
     IN \E out \in SelectOutcomes : \E row \in GtRows(gt, GtStride * i) :
          /\ submitted' = Append(submitted, Call(sql, out.status, out.ids))
          /\ values_' = WriterAfterExecute(values_, out.ids)
          /\ id_lst' = IdList(values_')
          /\ gt_arg' = GtStride * i
          /\ metric' = AddQueryResult(metric, id_lst', row)
  /\ i' = i + 1
  /\ UNCHANGED <<pc, errlog, xb, nb, xq, nq, gt, k, report>>

ShowRecalls ==
  /\ pc = "query"
  /\ i >= nq
  /\ report' = Show(metric)
  /\ xq' = <<>>
  /\ gt' = <<>>
  /\ pc' = "done"
  /\ UNCHANGED <<submitted, errlog, xb, nb, nq, k, i, values_, id_lst, gt_arg, metric>>

Init ==
  /\ pc = "create_table" /\ submitted = <<>> /\ errlog = <<>>
  /\ xb = <<>> /\ nb = 0 /\ xq = <<>> /\ nq = 0 /\ gt = <<>> /\ k = 0
  /\ i = 0 /\ values_ = <<>> /\ id_lst = <<>> /\ gt_arg = 0
  /\ metric = ZeroMetric /\ report = NoReport
  /\ ReadIdle
  /\ MetricIdle

Next ==
  \/ CreateTable /\ UNCHANGED readVars /\ UNCHANGED metricVars
  \/ CreateIndex /\ UNCHANGED readVars /\ UNCHANGED metricVars
  \/ LoadBase /\ UNCHANGED readVars /\ UNCHANGED metricVars
  \/ InsertStep /\ UNCHANGED readVars /\ UNCHANGED metricVars
  \/ InsertDone /\ UNCHANGED readVars /\ UNCHANGED metricVars
  \/ LoadQueries /\ UNCHANGED readVars /\ UNCHANGED metricVars
  \/ LoadGroundTruth /\ UNCHANGED readVars /\ UNCHANGED metricVars
  \/ QueryStep /\ UNCHANGED readVars /\ UNCHANGED metricVars
  \/ ShowRecalls /\ UNCHANGED readVars /\ UNCHANGED metricVars

Spec == Init /\ [][Next]_vars

(***************************************************************************)
(* C7, C8: FvecsRead                                                       *)
(***************************************************************************)
\* C7: for a well-formed file of n >= 1 records of dimension d >= 1,
\* FvecsRead returns n_out = n, d_out = d and a buffer whose element
\* i * d + j is the j-th payload element of record i; while the shift loop
\* runs, the payload of every row not yet moved is still in its place.
C7_ReadCompacts ==
  \A n \in 1..(MaxRecords + 1), d \in 1..(MaxDim + 1) :
    IsWellFormed(rfile, n, d) =>
      /\ rpc \in {"shift", "returned"} =>
           /\ rn = n /\ rd = d
           /\ \A r \in 0..(n - 1), j \in 0..(d - 1) :
                IF r < ri
                THEN rx[r * d + j + 1] = Payload(rfile, d, r, j)
                ELSE rx[r * (d + 1) + 1 + j + 1] = Payload(rfile, d, r, j)
      /\ rpc = "returned" => ri = n
      /\ rpc # "aborted"

\* a well-formed file of at least 2 records of dimension at least 2 was
\* read to the end
C7_Witness ==
  /\ rpc = "returned"
  /\ \E n \in 2..MaxRecords, d \in 2..MaxDim : IsWellFormed(rfile, n, d) /\ ri = n

\* C8: FvecsRead gets past its checks only when the first integer d of the
\* file satisfies 0 < d < 1000000 and the file size is a multiple of
\* (d + 1) * 4; a file with a first integer that fails either is aborted on.
C8_MalformedAborts ==
  /\ rpc \in {"shift", "returned"} =>
       /\ rd > 0 /\ rd < 1000000
       /\ FileSize(rfile) % ((rd + 1) * 4) = 0
       /\ Len(rfile.words) >= 1 => rd = rfile.words[1]
  /\ ( /\ rpc \notin {"open", "header"}
       /\ Len(rfile.words) >= 1
       /\ \/ ~(rfile.words[1] > 0 /\ rfile.words[1] < 1000000)
          \/ FileSize(rfile) % ((rfile.words[1] + 1) * 4) # 0 )
     => rpc = "aborted"

\* a file with a valid first integer and a size that is no multiple of
\* (d + 1) * 4 was aborted on
C8_Witness ==
  /\ rpc = "aborted"
  /\ Len(rfile.words) >= 1
  /\ rfile.words[1] > 0 /\ rfile.words[1] < 1000000
  /\ FileSize(rfile) % ((rfile.words[1] + 1) * 4) # 0


(***************************************************************************)
(* C1, C2: Metric                                                          *)
(***************************************************************************)
\* C1: after any sequence of AddQueryResult calls,
\* hits_at_1 <= hits_at_10 <= hits_at_100 <= total_queries.
C1_CountersOrdered ==
  /\ mmetric.n_1_ <= mmetric.n_10_
  /\ mmetric.n_10_ <= mmetric.n_100_
  /\ mmetric.n_100_ <= mmetric.n_

\* three calls have left the four counters all different
C1_Witness ==
  /\ mcalls = 3
  /\ mmetric.n_1_ < mmetric.n_10_
  /\ mmetric.n_10_ < mmetric.n_100_
  /\ mmetric.n_100_ < mmetric.n_

\* the 0-based ranks at which id occurs in res
RanksOf(res, id) == {p - 1 : p \in {q \in 1..Len(res) : res[q] = id}}

\* the least element of a non-empty set of ranks
MinRank(S) == CHOOSE a \in S : \A b \in S : a <= b

Ind(b) == IF b THEN 1 ELSE 0

\* C2: one AddQueryResult call with results R and ground-truth row G adds 1
\* to total_queries and, with i the rank of the first occurrence of G[0] in
\* R, adds 1 to hits_at_1 iff i < 1, to hits_at_10 iff i < 10 and to
\* hits_at_100 iff i < 100; with no occurrence no hit counter changes.
C2_RecordStep ==
  [][ (mcalls' = mcalls + 1) =>
        LET S == RanksOf(mres', mrow'[1])
            found == S # {}
        IN /\ mmetric'.n_ = mmetric.n_ + 1
           /\ mmetric'.n_1_ = mmetric.n_1_ + Ind(found /\ MinRank(S) < 1)
           /\ mmetric'.n_10_ = mmetric.n_10_ + Ind(found /\ MinRank(S) < 10)
           /\ mmetric'.n_100_ = mmetric.n_100_ + Ind(found /\ MinRank(S) < 100) ]_vars

\* a call whose first match is at rank 10: only hits_at_100 and
\* total_queries grew
C2_Witness ==
  /\ mcalls = 1
  /\ RanksOf(mres, mrow[1]) # {}
  /\ MinRank(RanksOf(mres, mrow[1])) = 10
  /\ mmetric = [n_1_ |-> 0, n_10_ |-> 0, n_100_ |-> 1, n_ |-> 1]


(***************************************************************************)
(* C3 .. C6, C9, C10: main, the insert loop and the query loop             *)
(***************************************************************************)
HasPrefix(str, pre) == Len(str) >= Len(pre) /\ SubSeq(str, 1, Len(pre)) = pre

IsInsert(c) == HasPrefix(c.sql, "INSERT INTO")

Inserts == SelectSeq(submitted, IsInsert)

LastCall == submitted[Len(submitted)]

\* the query loop has run at least one iteration
Queried == pc \in {"query", "done"} /\ i >= 1

\* C3: when the backend reports failure for query i, the query is scored
\* with an empty result sequence: total_queries grows by 1, no hit counter
\* changes, and the loop goes on with query i + 1.
C3_FailedQueryIsMiss ==
  [][ (pc = "query" /\ Len(submitted') = Len(submitted) + 1 /\ ~submitted'[Len(submitted')].status) =>
        /\ id_lst' = <<>>
        /\ metric'.n_ = metric.n_ + 1
        /\ metric'.n_1_ = metric.n_1_
        /\ metric'.n_10_ = metric.n_10_
        /\ metric'.n_100_ = metric.n_100_
        /\ pc' = "query" /\ i' = i + 1 ]_vars

\* C4: the identifiers handed to the metric for a query are exactly the rows
\* the backend returned for that query's statement, in rank order, at most
\* 100 of them.
C4_OwnRowsOnly ==
  Queried => (id_lst = LastCall.ids /\ Len(id_lst) <= 100)

\* C5: the insert loop submits one insert per base row, in row order, the
\* statement for row j carrying the literal of row j and the identifier j,
\* whatever inserts fail; a failed insert is logged and nothing else.
C5_InsertEveryRow ==
  /\ pc = "insert" =>
       /\ Len(Inserts) = i /\ i <= nb
       /\ \A j \in 0..(i - 1) :
            Inserts[j + 1].sql =
              "INSERT INTO t1 VALUES (ARRAY "
                \o Vector2String(SubSeq(xb, j * 128 + 1, j * 128 + 128), 0, 128)
                \o " , " \o ToString(j) \o ");"
  /\ pc \in {"load_query", "load_gt", "query", "done", "aborted"} => Len(Inserts) = nb
  /\ \A j \in 1..Len(Inserts) : HasPrefix(submitted[2 + j].sql, insert_sql)
  /\ errlog = SelectSeq([j \in 1..Len(Inserts) |-> j - 1], LAMBDA j : ~Inserts[j + 1].status)

\* the insert loop is over, all rows were submitted and the first insert,
\* of at least two, had failed
C5_Witness ==
  /\ pc = "load_query"
  /\ nb >= 2
  /\ Len(Inserts) = nb
  /\ ~Inserts[1].status
  /\ errlog[1] = 0

\* C6: when the create-table statement is rejected nothing else is ever
\* submitted; when the create-index statement is rejected no insert or
\* select is ever submitted and no recall report is produced.
C6_SetupFailureAborts ==
  /\ Len(submitted) >= 1 => submitted[1].sql = create_table_sql
  /\ Len(submitted) >= 2 => submitted[2].sql = create_index
  /\ (Len(submitted) >= 1 /\ ~submitted[1].status) =>
       (Len(submitted) = 1 /\ pc = "aborted" /\ report = NoReport)
  /\ (Len(submitted) >= 2 /\ ~submitted[2].status) =>
       (Len(submitted) = 2 /\ pc = "aborted" /\ report = NoReport)

\* the create-index statement was rejected and the run aborted
C6_Witness ==
  /\ pc = "aborted"
  /\ Len(submitted) = 2
  /\ submitted[1].status
  /\ ~submitted[2].status

\* C9: when Show is reached with total_queries = 0 it reports all-zero
\* recalls or fails with NoQueriesRecordedError.
C9_ShowGuarded ==
  (pc = "done" /\ metric.n_ = 0) =>
    report \in {<<"0.0000", "0.0000", "0.0000">>, <<"NoQueriesRecordedError">>}

\* C10: the ground-truth row handed to the metric for query i is row i of
\* the nq * k ground-truth matrix, and lies inside it.
C10_GroundTruthRow ==
  Queried => (gt_arg = (i - 1) * k /\ gt_arg + k <= nq * k)

====
